---------------------------- MODULE Spec2Model ----------------------------
(***************************************************************************)
(* A model of pilot/scripts/stagein.py: the stage-in script that turns     *)
(* comma-separated argument lists into transfer descriptors, calls the     *)
(* transfer backend once, aggregates the outcome into a dictionary, writes *)
(* it as a report and exits.                                               *)
(*                                                                         *)
(* Python values are tagged records [t, v]; a Python str is a sequence of  *)
(* one-character strings, so that split, the two regular expressions,      *)
(* replace and strip are computed character by character.                  *)
(***************************************************************************)
EXTENDS Integers, Sequences, FiniteSets, TLC

VARIABLES
    pc,               \* position of the script (or of the function under call)
    args,             \* the parsed command line: the twelve list strings
    eventservicemerge,\* args.eventservicemerge
    lists,            \* the twelve sequences returned by get_file_lists
    infoservice,      \* "unbound" | "bound": whether the name infoservice is bound
    infofail,         \* whether a call of the info-service block raised (and was logged)
    client,           \* "none" | "StageInClient" | "StageInESClient"
    activity,         \* "" | "pr" | "es_events_read"
    xfiles,           \* the descriptors (FileSpec objects), in order
    raised,           \* whether client.transfer raised
    excmsg,           \* str(e) of the exception raised by client.transfer
    err,              \* the script's variable err
    errcode,          \* the script's variable errcode
    file_dictionary,  \* the report: a sequence of <<key, value>> in insertion order
    writes,           \* the dictionaries handed to write_json, in order
    exitcode          \* -1 while running, else the process exit status

vars == <<pc, args, eventservicemerge, lists, infoservice, infofail, client, activity,
          xfiles, raised, excmsg, err, errcode, file_dictionary, writes, exitcode>>

-----------------------------------------------------------------------------
(* Bounds of the model. *)

\* the largest number of comma-separated elements in one argument string
MaxFiles == 2

\* the largest number of text pieces an error text is put together from
MaxPieces == 3

-----------------------------------------------------------------------------
(* Python values. *)

PyNone == [t |-> "None", v |-> 0]
PyInt(n) == [t |-> "int", v |-> n]
PyBool(b) == [t |-> "bool", v |-> b]
PyStr(s) == [t |-> "str", v |-> s]

\* Python truthiness of the values the script tests (str, None, int).
Truthy(x) ==
    CASE x.t = "str" -> x.v # <<>>
      [] x.t = "int" -> x.v # 0
      [] x.t = "bool" -> x.v
      [] OTHER -> FALSE

-----------------------------------------------------------------------------
(* Character strings. *)

Digits == {"0", "1", "2", "3", "4", "5", "6", "7", "8", "9"}
Whitespace == {" ", "\t", "\n", "\r"}

DigitValue(c) ==
    CASE c = "0" -> 0 [] c = "1" -> 1 [] c = "2" -> 2 [] c = "3" -> 3
      [] c = "4" -> 4 [] c = "5" -> 5 [] c = "6" -> 6 [] c = "7" -> 7
      [] c = "8" -> 8 [] c = "9" -> 9

S_error == <<"e", "r", "r", "o", "r">>
S_error_code == <<"e", "r", "r", "o", "r", " ", "c", "o", "d", "e", ":", " ">>
S_details == <<"d", "e", "t", "a", "i", "l", "s", ":", " ">>
S_PilotException ==
    <<"[", "P", "i", "l", "o", "t", "E", "x", "c", "e", "p", "t", "i", "o", "n", "(">>
S_True == <<"T", "r", "u", "e">>
S_False == <<"F", "a", "l", "s", "e">>
S_None == <<"N", "o", "n", "e">>
S_NULL == <<"N", "U", "L", "L">>

\* s[i..] starts with p
StartsAt(s, i, p) ==
    /\ i >= 1
    /\ i + Len(p) - 1 <= Len(s)
    /\ \A k \in 1..Len(p) : s[i + k - 1] = p[k]

Tail0(s, i) == SubSeq(s, i, Len(s))

\* str.split(sep) for a one-character separator: never an empty list.
RECURSIVE split(_, _)
split(s, sep) ==
    IF \E i \in 1..Len(s) : s[i] = sep
    THEN LET i == CHOOSE j \in 1..Len(s) :
                      s[j] = sep /\ \A k \in 1..(j - 1) : s[k] # sep
         IN <<SubSeq(s, 1, i - 1)>> \o split(Tail0(s, i + 1), sep)
    ELSE <<s>>

\* str.strip(): leading and trailing whitespace removed.
RECURSIVE lstrip(_)
lstrip(s) == IF s # <<>> /\ Head(s) \in Whitespace THEN lstrip(Tail(s)) ELSE s

RECURSIVE rstrip(_)
rstrip(s) ==
    IF s # <<>> /\ s[Len(s)] \in Whitespace THEN rstrip(SubSeq(s, 1, Len(s) - 1)) ELSE s

strip(s) == rstrip(lstrip(s))

\* str.replace(old, ""): every occurrence removed, scanning left to right once.
RECURSIVE remove(_, _)
remove(s, old) ==
    IF s = <<>> THEN <<>>
    ELSE IF StartsAt(s, 1, old) THEN remove(Tail0(s, Len(old) + 1), old)
    ELSE <<Head(s)>> \o remove(Tail(s), old)

\* the number a string of decimal digits denotes
RECURSIVE DecimalValue(_)
DecimalValue(s) ==
    IF s = <<>> THEN 0
    ELSE 10 * DecimalValue(SubSeq(s, 1, Len(s) - 1)) + DigitValue(s[Len(s)])

\* int(x) of a str, as str_to_int_list uses it: surrounding whitespace and one
\* sign are accepted, then decimal digits; anything else raises ValueError,
\* which the caller turns into None.
int(x) ==
    LET s == strip(x)
        signed == s # <<>> /\ Head(s) \in {"+", "-"}
        body == IF signed THEN Tail(s) ELSE s
    IN IF body # <<>> /\ \A i \in 1..Len(body) : body[i] \in Digits
       THEN PyInt(IF signed /\ Head(s) = "-" THEN 0 - DecimalValue(body)
                  ELSE DecimalValue(body))
       ELSE PyNone

-----------------------------------------------------------------------------
(* The List Reconciler: str_to_int_list, str_to_bool_list, get_file_lists. *)

\* the parameters of get_file_lists, in the order of its assignments
FieldOrder ==
    <<"lfns", "scopes", "filesizes", "checksums", "allowlans", "allowwans",
      "directaccesslans", "directaccesswans", "istars", "accessmodes",
      "storagetokens", "guids">>

Fields == {FieldOrder[i] : i \in 1..Len(FieldOrder)}

FieldIndex(f) == CHOOSE i \in 1..Len(FieldOrder) : FieldOrder[i] = f

IntFields == {"filesizes"}
BoolFields == {"allowlans", "allowwans", "directaccesslans", "directaccesswans", "istars"}

\* a list of str elements
StrList(toks) == [i \in 1..Len(toks) |-> PyStr(toks[i])]

str_to_int_list(_list) == [i \in 1..Len(_list) |-> int(_list[i])]

\* changes.get(x, x)
str_to_bool_list(_list) ==
    [i \in 1..Len(_list) |->
        CASE _list[i] = S_True -> PyBool(TRUE)
          [] _list[i] = S_False -> PyBool(FALSE)
          [] _list[i] = S_None -> PyNone
          [] _list[i] = S_NULL -> PyNone
          [] OTHER -> PyStr(_list[i])]

\* the right-hand side of one assignment of the try block
SplitField(f, s) ==
    LET toks == split(s, ",")
    IN IF f \in IntFields THEN str_to_int_list(toks)
       ELSE IF f \in BoolFields THEN str_to_bool_list(toks)
       ELSE StrList(toks)

\* x.split(',') raises AttributeError when x is not a str
SplitRaises(x) == x.t # "str"

\* The twelve lists start empty and are assigned one after the other inside one
\* try block: the first assignment that raises ends the block, the lists
\* assigned before it keep their values, the others stay empty.
get_file_lists(a) ==
    LET failing == {i \in 1..Len(FieldOrder) : SplitRaises(a[FieldOrder[i]])}
        stop == IF failing = {} THEN Len(FieldOrder) + 1
                ELSE CHOOSE i \in failing : \A j \in failing : i <= j
    IN [f \in Fields |->
           IF FieldIndex(f) < stop THEN SplitField(f, a[f].v) ELSE <<>>]

-----------------------------------------------------------------------------
(* The Error Extractor: extract_error_info. *)

\* re.search scans the start positions from the left; 0 stands for no match.

\* 'error code: (\d+)' matches at i: the literal, then at least one digit
CodeMatchesAt(s, i) ==
    /\ StartsAt(s, i, S_error_code)
    /\ i + Len(S_error_code) <= Len(s)
    /\ s[i + Len(S_error_code)] \in Digits

RECURSIVE search_code(_, _)
search_code(s, i) ==
    IF i > Len(s) THEN 0
    ELSE IF CodeMatchesAt(s, i) THEN i
    ELSE search_code(s, i + 1)

\* 'details: (.+)' matches at i: the literal, then at least one character that
\* is not a line break
DetailsMatchesAt(s, i) ==
    /\ StartsAt(s, i, S_details)
    /\ i + Len(S_details) <= Len(s)
    /\ s[i + Len(S_details)] # "\n"

RECURSIVE search_details(_, _)
search_details(s, i) ==
    IF i > Len(s) THEN 0
    ELSE IF DetailsMatchesAt(s, i) THEN i
    ELSE search_details(s, i + 1)

\* (\d+) is greedy: the longest run of digits from position i
RECURSIVE DigitRun(_, _)
DigitRun(s, i) ==
    IF i <= Len(s) /\ s[i] \in Digits THEN <<s[i]>> \o DigitRun(s, i + 1) ELSE <<>>

\* (.+) is greedy: everything from position i to the end of the line
RECURSIVE LineRun(_, _)
LineRun(s, i) ==
    IF i <= Len(s) /\ s[i] # "\n" THEN <<s[i]>> \o LineRun(s, i + 1) ELSE <<>>

\* extract_error_info without the .strip() of the message
extract_error_info_nostrip(e) ==
    LET _code == search_code(e, 1)
        _msg == search_details(e, 1)
    IN <<IF _code # 0 THEN PyStr(DigitRun(e, _code + Len(S_error_code)))
         ELSE PyInt(0),
         IF _msg # 0
         THEN PyStr(remove(LineRun(e, _msg + Len(S_details)), S_PilotException))
         ELSE PyStr(<<>>)>>

\* extract_error_info without the .replace('[PilotException(', '')
extract_error_info_noreplace(e) ==
    LET _code == search_code(e, 1)
        _msg == search_details(e, 1)
    IN <<IF _code # 0 THEN PyStr(DigitRun(e, _code + Len(S_error_code)))
         ELSE PyInt(0),
         IF _msg # 0 THEN PyStr(strip(LineRun(e, _msg + Len(S_details))))
         ELSE PyStr(<<>>)>>

\* returns <<error_code, error_message>>; the code is the int 0 or the matched
\* digits as a str
extract_error_info(e) ==
    LET _code == search_code(e, 1)
        _msg == search_details(e, 1)
        error_code ==
            IF _code # 0 THEN PyStr(DigitRun(e, _code + Len(S_error_code)))
            ELSE PyInt(0)
        error_message ==
            IF _msg # 0
            THEN PyStr(strip(remove(LineRun(e, _msg + Len(S_details)),
                                    S_PilotException)))
            ELSE PyStr(<<>>)
    IN <<error_code, error_message>>

-----------------------------------------------------------------------------
(* The report dictionary. *)

\* a Python dict keeps its keys in insertion order; assigning to a key it
\* already holds replaces the value in place
HasKey(dictionary, key) == \E i \in 1..Len(dictionary) : dictionary[i][1] = key

Lookup(dictionary, key) ==
    dictionary[CHOOSE i \in 1..Len(dictionary) : dictionary[i][1] = key][2]

\* add_to_dictionary that adds an entry even when the key is present
add_to_dictionary_append(dictionary, key, value1, value2, value3) ==
    Append(dictionary, <<key, <<value1, value2, value3>>>>)

\* add_to_dictionary as dictionary.setdefault(key, [...]): the first value stays
add_to_dictionary_setdefault(dictionary, key, value1, value2, value3) ==
    IF HasKey(dictionary, key) THEN dictionary
    ELSE Append(dictionary, <<key, <<value1, value2, value3>>>>)

\* dictionary[key] = [value1, value2, value3]
add_to_dictionary(dictionary, key, value1, value2, value3) ==
    IF HasKey(dictionary, key)
    THEN [i \in 1..Len(dictionary) |->
             IF dictionary[i][1] = key THEN <<key, <<value1, value2, value3>>>>
             ELSE dictionary[i]]
    ELSE Append(dictionary, <<key, <<value1, value2, value3>>>>)

-----------------------------------------------------------------------------
(* The Descriptor Builder. *)

Min(S) == CHOOSE x \in S : \A y \in S : x <= y
Max(S) == CHOOSE x \in S : \A y \in S : x >= y

\* itertools.zip_longest in the place of zip: missing elements become None
zip_longest(L) ==
    [i \in 1..Max({Len(L[f]) : f \in Fields}) |->
        [f \in Fields |-> IF i <= Len(L[f]) THEN L[f][i] ELSE PyNone]]

\* zip() of the twelve lists stops at the end of the shortest one; row i holds
\* element i of every list
zip(L) ==
    [i \in 1..Min({Len(L[f]) : f \in Fields}) |-> [f \in Fields |-> L[f][i]]]

\* args.workdir
Workdir == PyStr(<<"w">>)

\* the outcome fields of a FileSpec nobody has set yet
NoOutcome == [status |-> PyNone, status_code |-> PyNone, turl |-> PyNone]

\* FileSpec(type='input', **f): the keyword arguments become the attributes
FileSpec(type, f) ==
    [type |-> type,
     scope |-> f.scope, lfn |-> f.lfn, workdir |-> f.workdir,
     filesize |-> f.filesize, checksum |-> f.checksum,
     allow_lan |-> f.allow_lan, allow_wan |-> f.allow_wan,
     direct_access_lan |-> f.direct_access_lan, guid |-> f.guid,
     direct_access_wan |-> f.direct_access_wan, is_tar |-> f.is_tar,
     accessmode |-> f.accessmode, storage_token |-> f.storage_token,
     status |-> NoOutcome.status, status_code |-> NoOutcome.status_code,
     turl |-> NoOutcome.turl]

\* the dict `files` holds for one row of the zip
FilesDict(row) ==
    [scope |-> row["scopes"], lfn |-> row["lfns"], workdir |-> Workdir,
     filesize |-> row["filesizes"], checksum |-> row["checksums"],
     allow_lan |-> row["allowlans"], allow_wan |-> row["allowwans"],
     direct_access_lan |-> row["directaccesslans"], guid |-> row["guids"],
     direct_access_wan |-> row["directaccesswans"], is_tar |-> row["istars"],
     accessmode |-> row["accessmodes"], storage_token |-> row["storagetokens"]]

\* the loop that fills xfiles
BuildXfiles(L) ==
    LET rows == zip(L)
    IN [i \in 1..Len(rows) |-> FileSpec("input", FilesDict(rows[i]))]

-----------------------------------------------------------------------------
(* The Result Aggregator. *)

\* the loop over xfiles, from an empty dictionary
RECURSIVE AggregateFrom(_, _, _)
AggregateFrom(dictionary, xs, i) ==
    IF i > Len(xs) THEN dictionary
    ELSE AggregateFrom(
             add_to_dictionary(dictionary, xs[i].lfn, xs[i].status,
                               xs[i].status_code, xs[i].turl),
             xs, i + 1)

\* the status the summary line prints, never stored
SummaryStatus(fspec) ==
    IF Truthy(fspec.status) THEN fspec.status
    ELSE PyStr(<<"(", "n", "o", "t", " ", "t", "r", "a", "n", "s", "f", "e",
                 "r", "r", "e", "d", ")">>)

TRANSFER_ERROR == 12

-----------------------------------------------------------------------------
(* The inputs the model draws from. *)

S_timeout == <<"t", "i", "m", "e", "o", "u", "t">>
S_something == <<"s", "o", "m", "e", "t", "h", "i", "n", "g">>
S_oops == <<"o", "o", "p", "s">>
S_boom == <<"b", "o", "o", "m">>
S_dots == <<".", ".", ".">>
S_sp == <<" ">>

\* comma-join of a sequence of strings
RECURSIVE Join(_)
Join(toks) ==
    IF toks = <<>> THEN <<>>
    ELSE IF Len(toks) = 1 THEN toks[1]
    ELSE toks[1] \o <<",">> \o Join(Tail(toks))

\* the logical file names a run may name, 'error' among them
LfnNames == {<<"a">>, <<"b">>, S_error}

\* the elements the other argument strings cycle through
Cycle(f) ==
    CASE f = "scopes" -> <<<<"s">>, <<"a">>>>
      [] f = "filesizes" -> <<<<"1">>, <<"x">>, <<"4", "2">>>>
      [] f = "checksums" -> <<<<"c">>, <<"s">>>>
      [] f = "allowlans" -> <<S_True, S_False>>
      [] f = "allowwans" -> <<S_False, S_None>>
      [] f = "directaccesslans" -> <<S_None, S_True>>
      [] f = "directaccesswans" -> <<S_NULL, <<"x">>>>
      [] f = "istars" -> <<<<"x">>, S_True>>
      [] f = "accessmodes" -> <<<<"c">>, <<>>>>
      [] f = "storagetokens" -> <<<<"s">>, <<"g">>>>
      [] f = "guids" -> <<<<"g">>, <<"1">>>>
      [] OTHER -> <<<<"a">>>>

ArgString(f, n) ==
    Join([i \in 1..n |-> Cycle(f)[((i - 1) % Len(Cycle(f))) + 1]])

\* how many elements each argument string holds: the same number everywhere,
\* or one string of another length
Lengths ==
    {[f \in Fields |-> IF f = g THEN m ELSE n] :
        n \in 1..MaxFiles, m \in 1..MaxFiles, g \in Fields}

\* command lines: argparse requires the twelve list options, each is a str
ScriptArgs ==
    UNION {{[f \in Fields |->
                PyStr(IF f = "lfns" THEN Join(names) ELSE ArgString(f, len[f]))] :
                names \in [1..len["lfns"] -> LfnNames]} : len \in Lengths}

\* direct calls of get_file_lists: as above, or with one argument None
CallArgs ==
    ScriptArgs \cup
    {[a EXCEPT ![g] = PyNone] : a \in ScriptArgs, g \in Fields}

\* the texts pieced together for direct calls of extract_error_info
Pieces ==
    {S_error_code, S_details, S_PilotException, <<"4", "2">>, <<"x">>, S_sp,
     <<"\n">>}

RECURSIVE PieceTexts(_)
PieceTexts(n) ==
    IF n = 0 THEN {<<>>}
    ELSE LET shorter == PieceTexts(n - 1)
         IN shorter \cup {t \o p : t \in shorter, p \in Pieces}

\* '... error code: 3 ... details: timeout'
M_timeout ==
    S_dots \o S_sp \o S_error_code \o <<"3">> \o S_sp \o S_dots \o S_sp
        \o S_details \o S_timeout

\* '... error code: 42 ... details: something [PilotException(oops'
M_wrapped ==
    S_dots \o S_sp \o S_error_code \o <<"4", "2">> \o S_sp \o S_dots \o S_sp
        \o S_details \o S_something \o S_sp \o S_PilotException \o S_oops

\* str(e) of the exceptions the backend may raise
BackendTexts ==
    {<<>>, S_boom, M_timeout, M_wrapped,
     S_error_code \o <<"x">>,
     S_error_code \o <<"7">>,
     S_details \o S_sp \o <<"x">> \o S_sp,
     S_details \o S_sp \o S_sp,
     S_details \o <<"a", "\n", "b">>}

\* what the backend may leave on one descriptor
S_transferred == <<"t", "r", "a", "n", "s", "f", "e", "r", "r", "e", "d">>

Outcomes ==
    {NoOutcome,
     [status |-> PyStr(S_transferred), status_code |-> PyInt(0),
      turl |-> PyStr(<<"u">>)]}

-----------------------------------------------------------------------------
(* The script, from the parsed command line to the exit. *)

InfoSteps == {"InfoService()", "infoservice.init", "infosys.init"}

\* everything but pc, args, eventservicemerge and excmsg, as it is before the script
\* (or a called function) has assigned anything
Unassigned ==
    /\ lists = [f \in Fields |-> <<>>]
    /\ infoservice = "unbound"
    /\ infofail = FALSE
    /\ client = "none"
    /\ activity = ""
    /\ xfiles = <<>>
    /\ raised = FALSE
    /\ err = PyStr(<<>>)
    /\ errcode = PyInt(0)
    /\ file_dictionary = <<>>
    /\ writes = <<>>
    /\ exitcode = -1

Init ==
    /\ pc = "start"
    /\ args \in ScriptArgs
    /\ eventservicemerge \in BOOLEAN
    /\ excmsg = <<>>
    /\ Unassigned

\* lfns, scopes, ... = get_file_lists(args.lfns, args.scopes, ...)
GetFileLists ==
    /\ pc = "start"
    /\ lists' = get_file_lists(args)
    /\ pc' = "info"
    /\ UNCHANGED <<args, eventservicemerge, infoservice, infofail, client,
                   activity, xfiles, raised, excmsg, err, errcode,
                   file_dictionary, writes, exitcode>>

\* the try block around the info service: any of its three calls may raise,
\* the exception is logged; infoservice is bound once InfoService() returned
InitInfoService ==
    /\ pc = "info"
    /\ \E fail \in InfoSteps \cup {""} :
          /\ infofail' = (fail # "")
          /\ infoservice' = IF fail = "InfoService()" THEN "unbound" ELSE "bound"
    /\ pc' = "client"
    /\ UNCHANGED <<args, eventservicemerge, lists, client, activity, xfiles,
                   raised, excmsg, err, errcode, file_dictionary, writes,
                   exitcode>>

\* err = "", errcode = 0, then the client is built from infoservice: reading
\* the unbound name raises NameError outside any try, Python prints the
\* traceback and the process ends with status 1
SelectClient ==
    /\ pc = "client"
    /\ err' = PyStr(<<>>)
    /\ errcode' = PyInt(0)
    /\ IF infoservice = "unbound"
       THEN /\ pc' = "crashed"
            /\ exitcode' = 1
            /\ UNCHANGED <<client, activity>>
       ELSE /\ client' = IF eventservicemerge THEN "StageInESClient"
                         ELSE "StageInClient"
            /\ activity' = IF eventservicemerge THEN "es_events_read" ELSE "pr"
            /\ pc' = "build"
            /\ UNCHANGED exitcode
    /\ UNCHANGED <<args, eventservicemerge, lists, infoservice, infofail,
                   xfiles, raised, excmsg, file_dictionary, writes>>

\* the loop over zip(lfns, scopes, ...)
BuildDescriptors ==
    /\ pc = "build"
    /\ xfiles' = BuildXfiles(lists)
    /\ pc' = "transfer"
    /\ UNCHANGED <<args, eventservicemerge, lists, infoservice, infofail,
                   client, activity, raised, excmsg, err, errcode,
                   file_dictionary, writes, exitcode>>

\* the descriptors with the outcome fields the backend left on them
WithOutcomes(xs, o) ==
    [i \in 1..Len(xs) |->
        [xs[i] EXCEPT !.status = o[i].status, !.status_code = o[i].status_code,
                      !.turl = o[i].turl]]

\* r = client.transfer(xfiles, ...) returns
TransferReturns ==
    /\ pc = "transfer"
    /\ \E o \in [1..Len(xfiles) -> Outcomes] : xfiles' = WithOutcomes(xfiles, o)
    /\ raised' = FALSE
    /\ pc' = "aggregate"
    /\ UNCHANGED <<args, eventservicemerge, lists, infoservice, infofail,
                   client, activity, excmsg, err, errcode, file_dictionary,
                   writes, exitcode>>

\* client.transfer raises and nothing catches it
TransferRaisesUncaught ==
    /\ pc = "transfer"
    /\ \E o \in [1..Len(xfiles) -> Outcomes] : xfiles' = WithOutcomes(xfiles, o)
    /\ \E m \in BackendTexts : excmsg' = m
    /\ raised' = TRUE
    /\ pc' = "crashed"
    /\ exitcode' = 1
    /\ UNCHANGED <<args, eventservicemerge, lists, infoservice, infofail,
                   client, activity, err, errcode, file_dictionary, writes>>

\* client.transfer raises: err = str(e), errcode = -1
TransferRaises ==
    /\ pc = "transfer"
    /\ \E o \in [1..Len(xfiles) -> Outcomes] : xfiles' = WithOutcomes(xfiles, o)
    /\ \E m \in BackendTexts :
          /\ excmsg' = m
          /\ err' = PyStr(m)
    /\ errcode' = PyInt(-1)
    /\ raised' = TRUE
    /\ pc' = "aggregate"
    /\ UNCHANGED <<args, eventservicemerge, lists, infoservice, infofail,
                   client, activity, file_dictionary, writes, exitcode>>

\* file_dictionary = {} and the loop over xfiles
Aggregate ==
    /\ pc = "aggregate"
    /\ file_dictionary' =
          IF xfiles # <<>> THEN AggregateFrom(<<>>, xfiles, 1) ELSE <<>>
    /\ pc' = "errorinfo"
    /\ UNCHANGED <<args, eventservicemerge, lists, infoservice, infofail,
                   client, activity, xfiles, raised, excmsg, err, errcode,
                   writes, exitcode>>

\* if err: errcode, err = extract_error_info(err); then the 'error' entry
AddErrorInfo ==
    /\ pc = "errorinfo"
    /\ LET info == IF Truthy(err) THEN extract_error_info(err.v)
                   ELSE <<errcode, err>>
       IN /\ errcode' = info[1]
          /\ err' = info[2]
          /\ file_dictionary' =
                add_to_dictionary(file_dictionary, PyStr(S_error), info[2],
                                  info[1], PyNone)
    /\ pc' = "write"
    /\ UNCHANGED <<args, eventservicemerge, lists, infoservice, infofail,
                   client, activity, xfiles, raised, excmsg, writes, exitcode>>

\* _status = write_json(path, file_dictionary)
WriteReport ==
    /\ pc = "write"
    /\ writes' = Append(writes, file_dictionary)
    /\ pc' = "exit"
    /\ UNCHANGED <<args, eventservicemerge, lists, infoservice, infofail,
                   client, activity, xfiles, raised, excmsg, err, errcode,
                   file_dictionary, exitcode>>

\* the exit decided by whether client.transfer raised, not by err
ExitOnRaised ==
    /\ pc = "exit"
    /\ exitcode' = IF raised THEN TRANSFER_ERROR ELSE 0
    /\ pc' = "exited"
    /\ UNCHANGED <<args, eventservicemerge, lists, infoservice, infofail,
                   client, activity, xfiles, raised, excmsg, err, errcode,
                   file_dictionary, writes>>

\* if err: exit(TRANSFER_ERROR); otherwise exit(0)
Exit ==
    /\ pc = "exit"
    /\ exitcode' = IF Truthy(err) THEN TRANSFER_ERROR ELSE 0
    /\ pc' = "exited"
    /\ UNCHANGED <<args, eventservicemerge, lists, infoservice, infofail,
                   client, activity, xfiles, raised, excmsg, err, errcode,
                   file_dictionary, writes>>

Next ==
    \/ GetFileLists
    \/ InitInfoService
    \/ SelectClient
    \/ BuildDescriptors
    \/ TransferReturns
    \/ TransferRaises
    \/ Aggregate
    \/ AddErrorInfo
    \/ WriteReport
    \/ Exit

Spec == Init /\ [][Next]_vars

-----------------------------------------------------------------------------
(* get_file_lists called on its own: each argument a str, or one of them not. *)

InitLists ==
    /\ pc = "get_file_lists"
    /\ args \in CallArgs
    /\ eventservicemerge = FALSE
    /\ excmsg = <<>>
    /\ Unassigned

CallGetFileLists ==
    /\ pc = "get_file_lists"
    /\ lists' = get_file_lists(args)
    /\ pc' = "returned"
    /\ UNCHANGED <<args, eventservicemerge, infoservice, infofail, client,
                   activity, xfiles, raised, excmsg, err, errcode,
                   file_dictionary, writes, exitcode>>

SpecLists == InitLists /\ [][CallGetFileLists]_vars

-----------------------------------------------------------------------------
(* extract_error_info called on its own; excmsg holds the argument, errcode  *)
(* and err the two values returned.                                          *)

InitExtract ==
    /\ pc = "extract_error_info"
    /\ args = [f \in Fields |-> PyStr(<<>>)]
    /\ eventservicemerge = FALSE
    /\ excmsg \in PieceTexts(MaxPieces) \cup BackendTexts
    /\ Unassigned

CallExtractErrorInfo ==
    /\ pc = "extract_error_info"
    /\ LET info == extract_error_info(excmsg)
       IN /\ errcode' = info[1]
          /\ err' = info[2]
    /\ pc' = "returned"
    /\ UNCHANGED <<args, eventservicemerge, lists, infoservice, infofail,
                   client, activity, xfiles, raised, excmsg, file_dictionary,
                   writes, exitcode>>

SpecExtract == InitExtract /\ [][CallExtractErrorInfo]_vars

-----------------------------------------------------------------------------
(* Properties. *)

ErrorKey == PyStr(S_error)

\* the positions of the script at which the report holds its 'error' entry
ReportComplete == pc \in {"write", "exit", "exited"}

\* the positions of the script at which the loop over xfiles has run
Aggregated == pc \in {"errorinfo", "write", "exit", "exited"}

\* the positions of the script at which xfiles has been built
Built == pc \in {"transfer", "aggregate", "errorinfo", "write", "exit", "exited"}

ErrorEntry == Lookup(file_dictionary, ErrorKey)

\* C1 (as claimed): when the script has exited after a dispatch, the report
\* has been written; the exit code is 12 if the backend raised with a
\* non-empty message, and 0 if the backend returned without raising.
C1_ExitPolicy ==
    pc = "exited" =>
        /\ Len(writes) = 1
        /\ (raised /\ excmsg # <<>>) => exitcode = TRANSFER_ERROR
        /\ ~raised => exitcode = 0

\* C2: once the 'error' entry is added, the report holds exactly one entry
\* under the key 'error', also when a descriptor is named 'error'; its value is
\* (err, errcode, None), and ("", 0, None) when the backend did not raise.
C2_OneErrorEntry ==
    ReportComplete =>
        /\ Cardinality({i \in 1..Len(file_dictionary) :
                            file_dictionary[i][1] = ErrorKey}) = 1
        /\ ErrorEntry = <<err, errcode, PyNone>>
        /\ ~raised => ErrorEntry = <<PyStr(<<>>), PyInt(0), PyNone>>

\* C2 witness: the backend raised, a descriptor is named 'error', and the
\* finished report carries a non-empty error message.
C2_Witness ==
    /\ pc = "exited"
    /\ raised
    /\ \E i \in 1..Len(xfiles) : xfiles[i].lfn = ErrorKey
    /\ ErrorEntry[1] # PyStr(<<>>)

\* C3: a raising backend never ends the script before the report: the script
\* does not crash after the backend raised, the report is written at most
\* once, at exit it has been written exactly once and holds the aggregated
\* dictionary, and from the write on neither the dictionary nor what was
\* written changes.
C3_ReportWrittenOnce ==
    /\ [](/\ raised => pc # "crashed"
          /\ Len(writes) <= 1
          /\ pc \in {"exit", "exited"} =>
                /\ Len(writes) = 1
                /\ writes[1] = file_dictionary
                /\ HasKey(file_dictionary, ErrorKey)
                /\ \A i \in 1..Len(xfiles) : HasKey(file_dictionary, xfiles[i].lfn))
    /\ [][writes # <<>> =>
            (file_dictionary' = file_dictionary /\ writes' = writes)]_vars

\* C3 witness: the backend raised and the script exited with the report
\* written once.
C3_Witness ==
    /\ pc = "exited"
    /\ raised
    /\ Len(writes) = 1

\* the position of the last descriptor named as descriptor i is
LastNamed(i) ==
    Max({j \in 1..Len(xfiles) : xfiles[j].lfn = xfiles[i].lfn})

\* C4: after aggregation, every logical name other than 'error' that a
\* descriptor carries has one report entry, equal to the (status, status_code,
\* turl) the backend left on the last descriptor of that name, None included.
C4_LastWriteWins ==
    Aggregated =>
        \A i \in 1..Len(xfiles) :
            xfiles[i].lfn # ErrorKey =>
                /\ Cardinality({k \in 1..Len(file_dictionary) :
                                    file_dictionary[k][1] = xfiles[i].lfn}) = 1
                /\ Lookup(file_dictionary, xfiles[i].lfn) =
                      <<xfiles[LastNamed(i)].status,
                        xfiles[LastNamed(i)].status_code,
                        xfiles[LastNamed(i)].turl>>

\* C4 witness: the backend raised after setting the outcome of the first of
\* two descriptors of one name and leaving the second untouched.
C4_Witness ==
    /\ pc = "exited"
    /\ raised
    /\ \E i, j \in 1..Len(xfiles) :
          /\ i < j
          /\ xfiles[i].lfn = xfiles[j].lfn
          /\ xfiles[i].lfn # ErrorKey
          /\ xfiles[i].status # PyNone
          /\ xfiles[j].status = PyNone

\* C5 (as claimed): when get_file_lists returns after one of its arguments
\* made split raise, every returned sequence is empty.
C5_AllEmptyAfterFailure ==
    (pc = "returned" /\ \E f \in Fields : SplitRaises(args[f])) =>
        \A f \in Fields : lists[f] = <<>>

ListLengths == {Len(lists[f]) : f \in Fields}

\* C6: once built, there are as many descriptors as the shortest of the
\* twelve sequences has elements, descriptor i carries element i of every
\* sequence, and sequences of different lengths do not end the run.
C6_DescriptorsAligned ==
    /\ Built =>
          /\ Len(xfiles) = Min(ListLengths)
          /\ \A i \in 1..Len(xfiles) :
                /\ xfiles[i].lfn = lists["lfns"][i]
                /\ xfiles[i].scope = lists["scopes"][i]
                /\ xfiles[i].filesize = lists["filesizes"][i]
                /\ xfiles[i].checksum = lists["checksums"][i]
                /\ xfiles[i].allow_lan = lists["allowlans"][i]
                /\ xfiles[i].allow_wan = lists["allowwans"][i]
                /\ xfiles[i].direct_access_lan = lists["directaccesslans"][i]
                /\ xfiles[i].direct_access_wan = lists["directaccesswans"][i]
                /\ xfiles[i].is_tar = lists["istars"][i]
                /\ xfiles[i].accessmode = lists["accessmodes"][i]
                /\ xfiles[i].storage_token = lists["storagetokens"][i]
                /\ xfiles[i].guid = lists["guids"][i]
    /\ (pc = "crashed" /\ Cardinality(ListLengths) > 1) => infoservice = "unbound"

\* C6 witness: one sequence is shorter than the others, the descriptors stop
\* at its length, and the run went on to its exit.
C6_Witness ==
    /\ pc = "exited"
    /\ Cardinality(ListLengths) > 1
    /\ Len(xfiles) < Len(lists["lfns"])
    /\ Len(xfiles) = Len(lists["guids"])

\* the first position at which the text p occurs in s, 0 if it does not
FirstOccurrence(s, p) ==
    IF \E i \in 1..Len(s) : StartsAt(s, i, p)
    THEN Min({i \in 1..Len(s) : StartsAt(s, i, p)})
    ELSE 0

\* C7 reads: the digit string that follows the literal 'error code: ', or 0
\* when the message has no such substring
ClaimedCode(m) ==
    IF FirstOccurrence(m, S_error_code) # 0
    THEN PyStr(DigitRun(m, FirstOccurrence(m, S_error_code) + Len(S_error_code)))
    ELSE PyInt(0)

\* C7 reads: the text that follows the literal 'details: ', or the empty
\* string when the message has no such substring
ClaimedMessage(m) ==
    IF FirstOccurrence(m, S_details) # 0
    THEN PyStr(Tail0(m, FirstOccurrence(m, S_details) + Len(S_details)))
    ELSE PyStr(<<>>)

\* C7 (as claimed): when the backend raised with message m, the 'error' entry
\* of the report is (text after 'details: ' or "", digits after
\* 'error code: ' or 0, None).
C7_ErrorEntryAsClaimed ==
    (ReportComplete /\ raised) =>
        ErrorEntry = <<ClaimedMessage(excmsg), ClaimedCode(excmsg), PyNone>>

\* the digits from position j of m up to the first character that is no digit
DigitsFrom(m, j) ==
    SubSeq(m, j, Max({k \in (j - 1)..Len(m) : \A n \in j..k : m[n] \in Digits}))

\* the characters from position j of m up to the end of the line
LineFrom(m, j) ==
    SubSeq(m, j, Max({k \in (j - 1)..Len(m) : \A n \in j..k : m[n] # "\n"}))

\* the code of a non-empty message: the digits at the first place where
\* 'error code: ' is followed by a digit, as a str; the int 0 without one
AmendedCode(m) ==
    LET at == {i \in 1..Len(m) : CodeMatchesAt(m, i)}
    IN IF at = {} THEN PyInt(0)
       ELSE PyStr(DigitsFrom(m, Min(at) + Len(S_error_code)))

\* the message of a non-empty message: the rest of the line at the first
\* place where 'details: ' is followed by a character of the same line, every
\* '[PilotException(' taken out and the whitespace at both ends cut; "" without
AmendedMessage(m) ==
    LET at == {i \in 1..Len(m) : DetailsMatchesAt(m, i)}
    IN IF at = {} THEN PyStr(<<>>)
       ELSE PyStr(strip(remove(LineFrom(m, Min(at) + Len(S_details)),
                               S_PilotException)))

\* C7 (amended): when the backend raised with message m, the 'error' entry of
\* the report is ("", -1, None) for an empty m, and otherwise (message, code,
\* None) with the code and the message described above; for
\* '... error code: 3 ... details: timeout' it is ("timeout", "3", None).
C7_ErrorEntryOnFailure ==
    (ReportComplete /\ raised) =>
        /\ excmsg = <<>> => ErrorEntry = <<PyStr(<<>>), PyInt(-1), PyNone>>
        /\ excmsg # <<>> =>
              ErrorEntry = <<AmendedMessage(excmsg), AmendedCode(excmsg), PyNone>>
        /\ excmsg = M_timeout =>
              ErrorEntry = <<PyStr(S_timeout), PyStr(<<"3">>), PyNone>>

\* C7 witness: the backend raised a message whose detail text is surrounded by
\* whitespace, and the report holds the trimmed text.
C7_Witness ==
    /\ pc = "exited"
    /\ raised
    /\ excmsg = S_details \o S_sp \o <<"x">> \o S_sp
    /\ ErrorEntry = <<PyStr(<<"x">>), PyInt(0), PyNone>>

\* C8 (as claimed): for '... error code: 42 ... details: something
\* [PilotException(oops' extract_error_info returns code "42" and message
\* "oops".
C8_WrappedGivesOops ==
    (pc = "returned" /\ excmsg = M_wrapped) =>
        /\ errcode = PyStr(<<"4", "2">>)
        /\ err = PyStr(S_oops)

\* C8 (amended): for that input extract_error_info returns code "42" and
\* message "something oops": only the token '[PilotException(' is taken out
\* of the detail text, the text before it stays, the result is trimmed.
C8_WrappedKeepsLeadingText ==
    (pc = "returned" /\ excmsg = M_wrapped) =>
        /\ errcode = PyStr(<<"4", "2">>)
        /\ err = PyStr(S_something \o S_sp \o S_oops)

\* C8 witness: extract_error_info has returned for that input.
C8_Witness ==
    /\ pc = "returned"
    /\ excmsg = M_wrapped
    /\ err # PyStr(<<>>)

\* C9 (as claimed): when a call of the info-service block raised, the process
\* ends only by the script's own exit, with the report written and the exit
\* code 0 or 12.
C9_InfoFailureNotEscalated ==
    (infofail /\ exitcode # -1) =>
        /\ pc = "exited"
        /\ Len(writes) = 1
        /\ exitcode \in {0, TRANSFER_ERROR}

\* C10: once the report is written the process ends with 0 or 12 only, and at
\* exit the code is 12 exactly when the message of the written report's
\* 'error' entry is non-empty, 0 exactly when it is empty.
C10_ExitCodeAgreesWithReport ==
    /\ (writes # <<>> /\ exitcode # -1) => exitcode \in {0, TRANSFER_ERROR}
    /\ pc = "exited" =>
          /\ writes # <<>>
          /\ exitcode = TRANSFER_ERROR <=> Lookup(writes[1], ErrorKey)[1] # PyStr(<<>>)
          /\ exitcode = 0 <=> Lookup(writes[1], ErrorKey)[1] = PyStr(<<>>)

\* C10 witness: the backend raised, the written report carries an empty error
\* message with a code, and the process ended with 0.
C10_Witness ==
    /\ pc = "exited"
    /\ raised
    /\ exitcode = 0
    /\ Lookup(writes[1], ErrorKey) = <<PyStr(<<>>), PyStr(<<"7">>), PyNone>>

=============================================================================
